---- MODULE Spec2Model ----
(***************************************************************************)
(* A model of librosa/segment.py: the time-lag coordinate transforms       *)
(* (recurrence_to_lag, lag_to_recurrence) and the recurrence-matrix        *)
(* builder (recurrence_matrix).                                            *)
(*                                                                         *)
(* Arrays are records [ndim, shape, a]; a 2-D array of shape <<r, c>> has  *)
(* a[i][j] for i in 0..r-1 and j in 0..c-1 (0-based, as in the source).    *)
(* Sparse matrices are modelled by their values, an absent entry being 0;  *)
(* fmt names the storage ("dense" for an ndarray, otherwise the scipy      *)
(* sparse format).                                                         *)
(***************************************************************************)
EXTENDS Integers, Sequences, FiniteSets, TLC

\* ------------------------------------------------------------------ bounds
\* largest side of an input matrix of the coordinate transforms
MaxN == 3
\* largest number of nonzero entries of an input matrix of the transforms
MaxNnz == 2
\* the nonzero values an input entry may take
Vals == {1, 2}
\* the axis arguments tried: the three valid ones and two invalid ones
Axes == {-2, -1, 0, 1, 2}
\* the storage formats tried
Formats == {"dense", "csr", "lil"}
\* largest number of feature vectors given to recurrence_matrix
MaxT == 4
\* largest k argument given to recurrence_matrix
MaxK == 2
\* the (one-dimensional) feature values
Feats == {0, 1, 3}
\* the mode arguments tried: the three valid ones and an invalid one
Modes == {"connectivity", "distance", "affinity", "similarity"}
\* the bandwidth arguments tried
Bandwidths == {-1, 0, 2}
\* largest side of the R argument of path_enhance
MaxR == 2
\* largest n_filters argument of path_enhance
MaxFilters == 3
\* max_ratio and min_ratio are powers of two 2^e, e being one of
Exps == {-1, 0, 1}
\* the numbers of ones in the R argument of path_enhance
Ones == {0, 1, 2}
\* the filter lengths n tried
KernelLengths == {3}

\* ------------------------------------------------------- variables: Spec
VARIABLES
    pc,      \* position of the driver: "start", "lag", "done"
    op,      \* the entry point called first: "none", "to_lag", "from_lag"
    inp,     \* the matrix argument
    fmt,     \* storage format of the argument
    pad,     \* pad argument of recurrence_to_lag
    axis,    \* axis argument
    lag,     \* value returned by recurrence_to_lag (NoArr when none)
    out,     \* value returned by lag_to_recurrence (NoArr when none)
    err,     \* exception raised by the last call ("none" when it returned)
    arg_after, \* the argument of the last call as its caller sees it after
               \* the call (NoArr before any call)
    shares   \* whether the value last returned shares storage with the
             \* argument of that call

lagvars == <<pc, op, inp, fmt, pad, axis, lag, out, err, arg_after, shares>>

\* ----------------------------------------------------- variables: SpecRM
VARIABLES
    rpc,         \* "start" before the call of recurrence_matrix, "done" after
    data,        \* the feature sequence: data[i] for i in 0..t-1
    k_given,     \* FALSE when k is None
    k_arg,       \* the k argument (read only when k_given)
    width,       \* the width argument
    sym,         \* the sym argument
    mode,        \* the mode argument
    bw_given,    \* FALSE when bandwidth is None
    bw_arg,      \* the bandwidth argument (read only when bw_given)
    selfloop,    \* the self argument
    sparse,      \* the sparse argument
    rerr,        \* exception raised by the call ("none" when it returned)
    k_eff,       \* k after line 217 (0 when the line was not reached)
    knn_built,   \* whether the construction of the k-NN index was reached
    n_neighbors, \* neighbors requested from the index (0 when not reached)
    pruned,      \* rec after the top-k loop of lines 244-252
    bandwidth,   \* the bandwidth used by the affinity mapping
    rec_out      \* the matrix returned (NoRec when none)

rmvars == <<rpc, data, k_given, k_arg, width, sym, mode, bw_given, bw_arg,
            selfloop, sparse, rerr, k_eff, knn_built, n_neighbors, pruned,
            bandwidth, rec_out>>

\* ----------------------------------------------------- variables: SpecPE
VARIABLES
    ppc,        \* "start" before the call of path_enhance, "done" after
    pe_R,       \* the R argument
    pe_n,       \* the n argument: the length of the smoothing filter
    max_exp,    \* log2 of the max_ratio argument
    min_given,  \* FALSE when min_ratio is None
    min_exp,    \* log2 of the min_ratio argument (read only when min_given)
    n_filters,  \* the n_filters argument
    zero_mean,  \* the zero_mean argument
    clip,       \* the clip argument
    perr,       \* exception raised by the call ("none" when it returned)
    ratios,     \* log2 of the slope of every kernel generated, in order
    n_conv,     \* number of convolutions run
    R_smooth    \* the matrix returned (NoArr when none)

pevars == <<ppc, pe_R, pe_n, max_exp, min_given, min_exp, n_filters,
            zero_mean, clip, perr, ratios, n_conv, R_smooth>>

\* ----------------------------------------------------- variables: SpecTF
VARIABLES
    tpc,        \* position inside the wrapper built by timelag_filter:
                \* "start", "bound", "call", "from_lag", "done"
    tf_fn,      \* the wrapped function
    tf_pad,     \* the pad argument of timelag_filter
    tf_index,   \* the index argument of timelag_filter
    tf_args,    \* the positional arguments of the caller
    tf_kwargs,  \* the keyword arguments of the caller: <<name, value>> pairs
    tf_bound,   \* the positional arguments __my_filter received
    tf_kw,      \* the keyword arguments __my_filter received
    tf_cur,     \* the local args of __my_filter after line 555
    tf_result,  \* the wrapper's local result (NoArr when none)
    tf_out,     \* the value returned by the wrapper (NoArr when none)
    tf_err,     \* exception raised by the wrapper ("none" when none)
    tf_trace    \* the calls the wrapper made, in order

tfvars == <<tpc, tf_fn, tf_pad, tf_index, tf_args, tf_kwargs, tf_bound,
            tf_kw, tf_cur,
            tf_result, tf_out, tf_err, tf_trace>>

vars == <<lagvars, rmvars, pevars, tfvars>>

\* ------------------------------------------------------------ array basics
NoArr == [ndim |-> 0, shape |-> <<>>, a |-> <<>>]

Arr2(r, c, f) == [ndim |-> 2, shape |-> <<r, c>>, a |-> f]

Zeros2(r, c) == Arr2(r, c, [i \in 0..(r-1) |-> [j \in 0..(c-1) |-> 0]])

\* shape[ax] of a 2-D array for ax in {0, 1}
Dim(A, ax) == A.shape[ax + 1]

Abs(x) == IF x < 0 THEN -x ELSE x

\* A[i, :] (ax = 0) or A[:, i] (ax = 1), as a vector indexed from 0
GetSlice(A, ax, i) ==
    IF ax = 0
    THEN [q \in 0..(Dim(A, 1) - 1) |-> A.a[i][q]]
    ELSE [q \in 0..(Dim(A, 0) - 1) |-> A.a[q][i]]

\* A with A[i, :] (ax = 0) or A[:, i] (ax = 1) replaced by the vector v
SetSlice(A, ax, i, v) ==
    IF ax = 0
    THEN [A EXCEPT !.a = [r \in DOMAIN A.a |-> IF r = i THEN v ELSE A.a[r]]]
    ELSE [A EXCEPT !.a = [r \in DOMAIN A.a |->
                            [q \in DOMAIN A.a[r] |->
                                IF q = i THEN v[r] ELSE A.a[r][q]]]]

\* util.roll_sparse(x, shift) on one slice: a cyclic rotation, the entry at
\* position k moving to position (k + shift) mod len(x)
roll_sparse(x, shift) ==
    LET L == Cardinality(DOMAIN x)
    IN  [q \in DOMAIN x |-> x[(q - shift) % L]]

\* ---------------------------------------------------- recurrence_to_lag
\* np.pad(rec, padding) / scipy.sparse.kron([[1, 0]] (swapped), rec): t zeros
\* appended along the lag axis 1 - ax
PadLag(rec, ax, t) ==
    LET r == Dim(rec, 0)
        c == Dim(rec, 1)
        r2 == IF ax = 1 THEN r + t ELSE r
        c2 == IF ax = 0 THEN c + t ELSE c
    IN  Arr2(r2, c2, [i \in 0..(r2-1) |-> [j \in 0..(c2-1) |->
                        IF i < r /\ j < c THEN rec.a[i][j] ELSE 0]])

\* ToLagLoop with the rotation in the wrong direction
RECURSIVE ToLagLoop_WrongShift(_, _, _, _)
ToLagLoop_WrongShift(L, ax, t, i) ==
    IF i >= t THEN L
    ELSE ToLagLoop_WrongShift(
            SetSlice(L, ax, i, roll_sparse(GetSlice(L, ax, i), i)),
            ax, t, i + 1)

\* the loop of lines 382-384, from index i on: slice i is rolled by -i
RECURSIVE ToLagLoop(_, _, _, _)
ToLagLoop(L, ax, t, i) ==
    IF i >= t THEN L
    ELSE ToLagLoop(SetSlice(L, ax, i, roll_sparse(GetSlice(L, ax, i), -i)),
                   ax, t, i + 1)

\* recurrence_to_lag(rec, pad, axis): [err, val]
recurrence_to_lag(rec, p, axarg) ==
    LET ax == Abs(axarg)
    IN  IF rec.ndim # 2 \/ rec.shape[1] # rec.shape[2]
        THEN [err |-> "ParameterError", val |-> NoArr]
        ELSE IF ax > 1
        \* t = rec.shape[axis] with axis out of range
        THEN [err |-> "IndexError", val |-> NoArr]
        ELSE LET t == Dim(rec, ax)
                 lag0 == IF p THEN PadLag(rec, ax, t) ELSE rec
             IN  [err |-> "none", val |-> ToLagLoop(lag0, ax, t, 1)]

\* ---------------------------------------------------- lag_to_recurrence
\* FromLagLoop with the rotation in the wrong direction
RECURSIVE FromLagLoop_WrongShift(_, _, _, _, _)
FromLagLoop_WrongShift(R, L, ax, t, i) ==
    IF i >= t THEN R
    ELSE FromLagLoop_WrongShift(
            SetSlice(R, ax, i, roll_sparse(GetSlice(L, ax, i), -i)),
            L, ax, t, i + 1)

\* the loop of lines 467-469: slice i of rec is slice i of lag rolled by +i
RECURSIVE FromLagLoop(_, _, _, _, _)
FromLagLoop(R, L, ax, t, i) ==
    IF i >= t THEN R
    ELSE FromLagLoop(SetSlice(R, ax, i, roll_sparse(GetSlice(L, ax, i), i)),
                     L, ax, t, i + 1)

\* Truncate that forgets to cut the lag axis back to length t
Truncate_Skip(R, ax, t) == R

\* rec[sub_slice]: the first t positions along the lag axis 1 - ax
Truncate(R, ax, t) ==
    LET r2 == IF ax = 1 THEN t ELSE Dim(R, 0)
        c2 == IF ax = 0 THEN t ELSE Dim(R, 1)
    IN  Arr2(r2, c2, [i \in 0..(r2-1) |-> [j \in 0..(c2-1) |-> R.a[i][j]]])

\* lag_to_recurrence(lag, axis): [err, val]
lag_to_recurrence(L, axarg) ==
    IF axarg \notin {0, 1, -1}
    THEN [err |-> "ParameterError", val |-> NoArr]
    ELSE LET ax == Abs(axarg)
         IN  IF L.ndim # 2
                \/ (L.shape[1] # L.shape[2] /\ Dim(L, 1 - ax) # 2 * Dim(L, ax))
             THEN [err |-> "ParameterError", val |-> NoArr]
             ELSE LET t == Dim(L, ax)
                  IN  [err |-> "none",
                       val |-> Truncate(FromLagLoop(L, L, ax, t, 1), ax, t)]

\* the loop of lines 467-469 when rec and lag are one storage: slice i is
\* read from the matrix the earlier iterations wrote
RECURSIVE FromLagLoopShared(_, _, _, _)
FromLagLoopShared(M, ax, t, i) ==
    IF i >= t THEN M
    ELSE FromLagLoopShared(
            SetSlice(M, ax, i, roll_sparse(GetSlice(M, ax, i), i)),
            ax, t, i + 1)

\* the argument of lag_to_recurrence(lag, axis) as the caller sees it after
\* the call. Line 460, rec = scipy.sparse.lil_matrix(lag), converts a csr
\* argument into new storage, but for a lil argument the new matrix takes
\* over the rows and data of lag, so that the assignments of line 468 write
\* into the caller's matrix; line 462, rec = lag.copy(), copies.
ArgAfterFromLag(L, f, axarg) ==
    IF lag_to_recurrence(L, axarg).err # "none" THEN L
    ELSE IF f = "lil"
         THEN FromLagLoopShared(L, Abs(axarg), Dim(L, Abs(axarg)), 1)
         ELSE L

\* the argument of recurrence_to_lag(rec, pad, axis) after the call: lines
\* 365-377 build lag in new storage on every path (tocsc/tocsr then kron or
\* lil_matrix of a non-lil matrix; np.pad; rec.copy())
ArgAfterToLag(rec, f, p, axarg) == rec

\* whether the value returned by either transform shares storage with its
\* argument: both index or convert a matrix built in new storage (lines
\* 386-388 and 471-477)
ResultShares(f) == FALSE

\* ------------------------------------------------------ recurrence_matrix
\* Matrix entries of recurrence_matrix are records [k, d, bw2]:
\*   k = "num": the number d;
\*   k = "exp": exp(-d / bandwidth) with d > 0 and bandwidth = bw2 / 2 > 0;
\*   k = "nan": the float NaN.
Num(d) == [k |-> "num", d |-> d, bw2 |-> 0]
NaN == [k |-> "nan", d |-> 0, bw2 |-> 0]
ExpVal(d, bw2) == [k |-> "exp", d |-> d, bw2 |-> bw2]
NoRec == [shape |-> <<>>, fmt |-> "none", a |-> <<>>]
NoBandwidth == [nan |-> FALSE, bw2 |-> 0]

Idx(t) == 0..(t - 1)

\* the metric: euclidean distance of one-dimensional features
Dist(x, i, j) == Abs(x[i] - x[j])

\* ceil(sqrt(m)) for an integer m >= 0
CeilSqrt(m) == CHOOSE c \in 0..m : c * c >= m /\ (c = 0 \/ (c - 1) * (c - 1) < m)

\* DefaultK with the square root rounded down instead of up
DefaultK_Floor(t, w) ==
    IF t > 2 * w + 1
    THEN 2 * (CHOOSE c \in 0..t : c * c <= t - 2 * w + 1
                                   /\ (c + 1) * (c + 1) > t - 2 * w + 1)
    ELSE 2

\* lines 206-210 and 217: the k used when k is None
DefaultK(t, w) == IF t > 2 * w + 1 THEN 2 * CeilSqrt(t - 2 * w + 1) ELSE 2

\* lines 221 and 225: n_neighbors given to the index
NNeighbors(t, k, w) == IF t - 1 < k + 2 * w THEN t - 1 ELSE k + 2 * w

\* the neighbor sets the k-NN index may return for point i: nn other points,
\* none of them farther from i than a point left out (ties are the index's)
NeighborSets(x, t, nn, i) ==
    LET others == Idx(t) \ {i}
    IN  {S \in SUBSET others :
            /\ Cardinality(S) = nn
            /\ \A p \in S, q \in others \ S : Dist(x, i, p) <= Dist(x, i, q)}

\* row i of knn.kneighbors_graph(mode=kng_mode) for the neighbor set S
GraphRow(x, t, kng_mode, i, S) ==
    [j \in Idx(t) |->
        IF j \notin S THEN 0
        ELSE IF kng_mode = "connectivity" THEN 1 ELSE Dist(x, i, j)]

\* RemoveBand clearing one diagonal too few on each side
RemoveBand_OffByOne(row, i, w) ==
    [j \in DOMAIN row |-> IF Abs(i - j) < w - 1 THEN 0 ELSE row[j]]

\* lines 240-241 on row i: rec.setdiag(0, diag) for -width < diag < width
RemoveBand(row, i, w) ==
    [j \in DOMAIN row |-> IF Abs(i - j) < w THEN 0 ELSE row[j]]

\* TopK keeping one link too many (idx[k+1:] squashed)
TopK_OffByOne(row, k) ==
    LET links == {j \in DOMAIN row : row[j] # 0}
        before(j) == {l \in links : row[l] < row[j] \/ (row[l] = row[j] /\ l < j)}
    IN  [j \in DOMAIN row |->
            IF j \in links /\ Cardinality(before(j)) >= k + 1 THEN 0 ELSE row[j]]

\* lines 246-252 on one row: the links ordered by ascending value, all but the
\* first k set to 0. np.argsort sorts rows this short by insertion, so equal
\* values stay in column order.
TopK(row, k) ==
    LET links == {j \in DOMAIN row : row[j] # 0}
        before(j) == {l \in links : row[l] < row[j] \/ (row[l] = row[j] /\ l < j)}
    IN  [j \in DOMAIN row |->
            IF j \in links /\ Cardinality(before(j)) >= k THEN 0 ELSE row[j]]

\* the rows that lines 237-252 can leave at index i
PrunedRows(x, t, nn, kng_mode, w, k, i) ==
    {TopK(RemoveBand(GraphRow(x, t, kng_mode, i, S), i, w), k) :
        S \in NeighborSets(x, t, nn, i)}

\* the matrices that lines 237-252 can leave, rows i..t-1 (as a sequence)
RECURSIVE PrunedFrom(_, _, _, _, _, _, _)
PrunedFrom(x, t, nn, kng_mode, w, k, i) ==
    IF i >= t THEN {<<>>}
    ELSE LET rest == PrunedFrom(x, t, nn, kng_mode, w, k, i + 1)
         IN  {<<row>> \o tail :
                row \in PrunedRows(x, t, nn, kng_mode, w, k, i), tail \in rest}

\* the matrices that lines 237-252 can leave: one row choice per point
PrunedMatrices(x, t, nn, kng_mode, w, k) ==
    {[i \in Idx(t) |-> s[i + 1]] : s \in PrunedFrom(x, t, nn, kng_mode, w, k, 0)}

\* lines 254-263: rec.setdiag(1) or rec.setdiag(-1)
SelfLoops(R, t, sl, m) ==
    IF sl /\ m \in {"connectivity", "affinity"}
    THEN [i \in Idx(t) |-> [j \in Idx(t) |->
            IF i = j THEN (IF m = "connectivity" THEN 1 ELSE -1) ELSE R[i][j]]]
    ELSE R

Min(a, b) == IF a <= b THEN a ELSE b

\* Symmetrize with the elementwise maximum (an edge kept if either end has it)
Symmetrize_Max(R, t, s) ==
    IF s THEN [i \in Idx(t) |-> [j \in Idx(t) |->
                IF R[i][j] >= R[j][i] THEN R[i][j] ELSE R[j][i]]]
    ELSE R

\* lines 266-269: rec.minimum(rec.T)
Symmetrize(R, t, s) ==
    IF s THEN [i \in Idx(t) |-> [j \in Idx(t) |-> Min(R[i][j], R[j][i])]]
    ELSE R

\* the m-th smallest (m >= 1) of the values v[i], i in I
KthSmallest(v, I, m) ==
    CHOOSE y \in {v[i] : i \in I} :
        /\ Cardinality({i \in I : v[i] < y}) < m
        /\ Cardinality({i \in I : v[i] <= y}) >= m

\* line 278: np.nanmedian(rec.max(axis=1).data), as [nan, bw2] with bw2 twice
\* the median; rec.max(axis=1).data holds the row maxima that are not 0
EstimateBandwidth(R, t) ==
    LET rowmax == [i \in Idx(t) |->
                    LET pos == {y \in {R[i][j] : j \in Idx(t)} : y > 0}
                    IN  IF pos = {} THEN 0
                        ELSE CHOOSE y \in pos : \A z \in pos : z <= y]
        I == {i \in Idx(t) : rowmax[i] # 0}
        n == Cardinality(I)
    IN  IF n = 0 THEN [nan |-> TRUE, bw2 |-> 0]
        ELSE IF n % 2 = 1
        THEN [nan |-> FALSE, bw2 |-> 2 * KthSmallest(rowmax, I, (n + 1) \div 2)]
        ELSE [nan |-> FALSE,
              bw2 |-> KthSmallest(rowmax, I, n \div 2)
                        + KthSmallest(rowmax, I, n \div 2 + 1)]

\* lines 271-283 on one stored value v of the matrix in mode m
Finalize(v, m, bw) ==
    IF v = 0 THEN Num(0)
    ELSE IF m = "connectivity" THEN Num(1)
    ELSE IF m = "distance" THEN Num(v)
    ELSE IF bw.nan THEN NaN
    ELSE IF v < 0 THEN Num(1)
    ELSE ExpVal(v, bw.bw2)

\* Validate checking the bandwidth only where it is used, in affinity mode
Validate_BwOnlyAffinity(t, w, m, bwg, bwa) ==
    IF w < 1 \/ w > t THEN "ParameterError"
    ELSE IF m \notin {"connectivity", "distance", "affinity"} THEN "ParameterError"
    ELSE IF m = "affinity" /\ bwg /\ bwa <= 0 THEN "ParameterError"
    ELSE "none"

\* lines 199-215: the first check that fails ("none" when all pass)
Validate(t, w, m, bwg, bwa) ==
    IF w < 1 \/ w > t THEN "ParameterError"
    ELSE IF m \notin {"connectivity", "distance", "affinity"} THEN "ParameterError"
    ELSE IF bwg /\ bwa <= 0 THEN "ParameterError"
    ELSE "none"

\* lines 265-286 on the matrix P left by the top-k loop: [bandwidth, rec]
Finish(P, t, sl, s, m, bwg, bwa, sp) ==
    LET R == Symmetrize(SelfLoops(P, t, sl, m), t, s)
        bw == IF m # "affinity" THEN NoBandwidth
              ELSE IF bwg THEN [nan |-> FALSE, bw2 |-> 2 * bwa]
              ELSE EstimateBandwidth(R, t)
    IN  [bandwidth |-> bw,
         rec |-> [shape |-> <<t, t>>,
                  fmt |-> IF sp THEN "csr" ELSE "dense",
                  a |-> [i \in Idx(t) |-> [j \in Idx(t) |->
                            Finalize(R[i][j], m, bw)]]]]

\* ------------------------------------------------------------- the inputs
Cells(r, c) == (0..(r-1)) \X (0..(c-1))

\* the r x c matrix holding the values of the (cell, value) pairs of s, a
\* later pair overwriting an earlier one
FromTriplets(r, c, s) ==
    Arr2(r, c, [i \in 0..(r-1) |-> [j \in 0..(c-1) |->
        LET hits == {n \in DOMAIN s : s[n][1] = <<i, j>>}
        IN  IF hits = {} THEN 0
            ELSE s[CHOOSE n \in hits : \A m \in hits : m <= n][2]]])

\* every r x c matrix with at most MaxNnz nonzero entries, each in Vals
Matrices(r, c) ==
    IF r = 0 \/ c = 0 THEN {Zeros2(r, c)}
    ELSE {FromTriplets(r, c, s) :
            s \in UNION {[1..m -> Cells(r, c) \X Vals] : m \in 0..MaxNnz}}

\* arrays that are not 2-D (their entries are never read)
OtherArrays ==
    {[ndim |-> 1, shape |-> <<n>>, a |-> <<>>] : n \in 0..MaxN}
    \cup {[ndim |-> 3, shape |-> <<n, n, n>>, a |-> <<>>] : n \in 1..MaxN}

Inputs == UNION {Matrices(r, c) : r \in 0..MaxN, c \in 0..MaxN}

\* ------------------------------------------------------------------- Spec
\* no call of recurrence_matrix is under way
RMIdle ==
    /\ rpc = "idle"
    /\ data = <<>>
    /\ k_given = FALSE /\ k_arg = 0
    /\ width = 1
    /\ sym = FALSE
    /\ mode = "connectivity"
    /\ bw_given = FALSE /\ bw_arg = 0
    /\ selfloop = FALSE
    /\ sparse = FALSE
    /\ rerr = "none"
    /\ k_eff = 0
    /\ knn_built = FALSE
    /\ n_neighbors = 0
    /\ pruned = <<>>
    /\ bandwidth = NoBandwidth
    /\ rec_out = NoRec

\* no call of a coordinate transform is under way
LagIdle ==
    /\ pc = "idle"
    /\ op = "none"
    /\ inp = NoArr
    /\ fmt = "dense"
    /\ pad = FALSE
    /\ axis = -1
    /\ lag = NoArr
    /\ out = NoArr
    /\ err = "none"
    /\ arg_after = NoArr
    /\ shares = FALSE

\* no call of path_enhance is under way
PEIdle ==
    /\ ppc = "idle"
    /\ pe_R = NoArr
    /\ pe_n = 1
    /\ max_exp = 0
    /\ min_given = FALSE /\ min_exp = 0
    /\ n_filters = 1
    /\ zero_mean = FALSE
    /\ clip = FALSE
    /\ perr = "none"
    /\ ratios = <<>>
    /\ n_conv = 0
    /\ R_smooth = NoArr

\* no call of a function wrapped by timelag_filter is under way
TFIdle ==
    /\ tpc = "idle"
    /\ tf_fn = "none"
    /\ tf_pad = FALSE
    /\ tf_index = 0
    /\ tf_args = <<>>
    /\ tf_kwargs = <<>>
    /\ tf_bound = <<>>
    /\ tf_kw = <<>>
    /\ tf_cur = <<>>
    /\ tf_result = NoArr
    /\ tf_out = NoArr
    /\ tf_err = "none"
    /\ tf_trace = <<>>

Init ==
    /\ pc = "start"
    /\ op = "none"
    /\ \/ inp \in Inputs /\ fmt \in Formats
       \/ inp \in OtherArrays /\ fmt = "dense"
    /\ pad = FALSE
    /\ axis = -1
    /\ lag = NoArr
    /\ out = NoArr
    /\ err = "none"
    /\ arg_after = NoArr
    /\ shares = FALSE
    /\ RMIdle
    /\ PEIdle
    /\ TFIdle

\* a call of recurrence_to_lag(inp, pad=p, axis=ax)
CallToLag ==
    /\ pc = "start"
    /\ \E p \in BOOLEAN, ax \in Axes :
        LET res == recurrence_to_lag(inp, p, ax)
        IN  /\ pad' = p
            /\ axis' = ax
            /\ lag' = res.val
            /\ err' = res.err
            /\ arg_after' = ArgAfterToLag(inp, fmt, p, ax)
            /\ shares' = ResultShares(fmt)
    /\ op' = "to_lag"
    /\ pc' = "lag"
    /\ UNCHANGED <<inp, fmt, out>>
    /\ UNCHANGED <<rmvars, pevars, tfvars>>

\* a call of lag_to_recurrence on the value recurrence_to_lag returned, with
\* the same axis
CallFromLag ==
    /\ pc = "lag"
    /\ err = "none"
    /\ LET res == lag_to_recurrence(lag, axis)
       IN  /\ out' = res.val
           /\ err' = res.err
    /\ arg_after' = ArgAfterFromLag(lag, fmt, axis)
    /\ shares' = ResultShares(fmt)
    /\ pc' = "done"
    /\ UNCHANGED <<op, inp, fmt, pad, axis, lag>>
    /\ UNCHANGED <<rmvars, pevars, tfvars>>

\* a call of lag_to_recurrence(inp, axis=ax) on a caller-supplied matrix
CallFromLagDirect ==
    /\ pc = "start"
    /\ \E ax \in Axes :
        LET res == lag_to_recurrence(inp, ax)
        IN  /\ axis' = ax
            /\ out' = res.val
            /\ err' = res.err
            /\ arg_after' = ArgAfterFromLag(inp, fmt, ax)
            /\ shares' = ResultShares(fmt)
    /\ op' = "from_lag"
    /\ pc' = "done"
    /\ UNCHANGED <<inp, fmt, pad, lag>>
    /\ UNCHANGED <<rmvars, pevars, tfvars>>

Next == CallToLag \/ CallFromLag \/ CallFromLagDirect

Spec == Init /\ [][Next]_vars

\* ----------------------------------------------------------------- SpecRM
\* the feature sequences of length t
DataOf(t) == [Idx(t) -> Feats]

ZeroData(t) == [i \in Idx(t) |-> 0]

\* Calls whose arguments all pass validation are tried on every feature
\* sequence (a bandwidth only in affinity mode, the one mode that reads its
\* value); calls with any other combination of arguments are tried on the
\* constant sequence of every length.
InitRM ==
    /\ LagIdle
    /\ PEIdle
    /\ TFIdle
    /\ rpc = "start"
    /\ \E t \in 1..MaxT :
        /\ data \in DataOf(t)
        /\ width \in 0..(t + 1)
        /\ mode \in Modes
        /\ bw_given \in BOOLEAN
        /\ bw_arg \in (IF bw_given THEN Bandwidths ELSE {0})
        /\ \/ data = ZeroData(t)
           \/ /\ Validate(t, width, mode, bw_given, bw_arg) = "none"
              /\ bw_given => mode = "affinity"
    /\ k_given \in BOOLEAN
    /\ k_arg \in (IF k_given THEN 1..MaxK ELSE {0})
    /\ sym \in BOOLEAN
    /\ selfloop \in BOOLEAN
    /\ sparse \in BOOLEAN
    /\ rerr = "none"
    /\ k_eff = 0
    /\ knn_built = FALSE
    /\ n_neighbors = 0
    /\ pruned = <<>>
    /\ bandwidth = NoBandwidth
    /\ rec_out = NoRec

\* a call of recurrence_matrix(data, k, width, sym=sym, sparse=sparse,
\* mode=mode, bandwidth=bandwidth, self=selfloop)
CallRecurrenceMatrix ==
    /\ rpc = "start"
    /\ rpc' = "done"
    /\ LET t == Cardinality(DOMAIN data)
           k == IF k_given THEN k_arg ELSE DefaultK(t, width)
           nn == NNeighbors(t, k, width)
           kng_mode == IF mode = "affinity" THEN "distance" ELSE mode
       IN  IF Validate(t, width, mode, bw_given, bw_arg) # "none"
           THEN \* raised before line 217
                /\ rerr' = "ParameterError"
                /\ UNCHANGED <<k_eff, knn_built, n_neighbors, pruned,
                               bandwidth, rec_out>>
           ELSE IF nn < 1
           THEN \* NearestNeighbors rejects n_neighbors <= 0
                /\ rerr' = "ValueError"
                /\ k_eff' = k
                /\ knn_built' = TRUE
                /\ n_neighbors' = nn
                /\ UNCHANGED <<pruned, bandwidth, rec_out>>
           ELSE \E P \in PrunedMatrices(data, t, nn, kng_mode, width, k) :
                /\ LET fin == Finish(P, t, selfloop, sym, mode, bw_given,
                                     bw_arg, sparse)
                   IN  /\ rerr' = "none"
                       /\ k_eff' = k
                       /\ knn_built' = TRUE
                       /\ n_neighbors' = nn
                       /\ pruned' = P
                       /\ bandwidth' = fin.bandwidth
                       /\ rec_out' = fin.rec
    /\ UNCHANGED <<data, k_given, k_arg, width, sym, mode, bw_given, bw_arg,
                   selfloop, sparse>>
    /\ UNCHANGED <<lagvars, pevars, tfvars>>

NextRM == CallRecurrenceMatrix

SpecRM == InitRM /\ [][NextRM]_vars

\* ----------------------------------------------------------- path_enhance
\* Slope ratios are powers of two and are held as their base-2 logarithm, a
\* fraction <<num, den>> in lowest terms with den > 0; the arithmetic on
\* them is exact.
RECURSIVE GCD(_, _)
GCD(x, y) == IF y = 0 THEN x ELSE GCD(y, x % y)

Frac(num, den) ==
    LET g == GCD(Abs(num), den) IN <<num \div g, den \div g>>

\* log2 of np.logspace(lo, hi, num=num, base=2): num evenly spaced points
\* from lo to hi, the single point lo when num = 1
Ratios(lo, hi, num) ==
    [i \in 1..num |->
        IF num = 1 THEN Frac(lo, 1)
        ELSE Frac(lo * (num - 1) + (i - 1) * (hi - lo), num - 1)]

\* diagonal_filter(window, n, slope=2^e, zero_mean=zm): an n x n kernel of
\* weight n laid along a line through the centre, the main diagonal for
\* slope 1 and a line leaning to one or the other axis for a slope above or
\* below 1; with zero_mean the mean weight is subtracted. Weights are
\* scaled by n to keep them integers.
diagonal_filter(n, e, zm) ==
    LET on(a, b) == IF e[1] = 0 THEN a = b
                    ELSE IF e[1] > 0 THEN b = (a + 1) \div 2
                    ELSE a = (b + 1) \div 2
    IN  Arr2(n, n, [a \in 0..(n-1) |-> [b \in 0..(n-1) |->
            IF zm THEN (IF on(a, b) THEN n - 1 ELSE -1)
            ELSE (IF on(a, b) THEN n ELSE 0)]])

\* mode='reflect' of scipy.ndimage: position i of an axis of length len,
\* the axis being continued by its mirror image (d c b a | a b c d | d c b a)
RECURSIVE Reflect(_, _)
Reflect(i, len) ==
    IF i < 0 THEN Reflect(-i - 1, len)
    ELSE IF i >= len THEN Reflect(2 * len - 1 - i, len)
    ELSE i

\* scipy.ndimage.convolve(R, kernel) with its default mode and origin, for a
\* kernel of odd side n: cell <<i, j>> is the sum over the kernel cells
\* <<a, b>> of the weight K[a][b] times the entry of A that lies a - h rows
\* and b - h columns before <<i, j>> (S[q] is the sum of the first q terms,
\* term a * n + b being that of kernel cell <<a, b>>)
Convolve(A, K) ==
    LET r == Dim(A, 0)
        c == Dim(A, 1)
        n == Dim(K, 0)
        h == n \div 2
        cell(i, j) ==
            LET S[q \in 0..(n * n)] ==
                    IF q = 0 THEN 0
                    ELSE S[q - 1]
                         + K.a[(q - 1) \div n][(q - 1) % n]
                           * A.a[Reflect(i + h - ((q - 1) \div n), r)]
                                [Reflect(j + h - ((q - 1) % n), c)]
            IN  S[n * n]
    IN  Arr2(r, c, [i \in 0..(r-1) |-> [j \in 0..(c-1) |-> cell(i, j)]])

\* np.maximum(A, B): the element-wise maximum
Maximum(A, B) ==
    Arr2(Dim(A, 0), Dim(A, 1),
         [i \in 0..(Dim(A, 0)-1) |-> [j \in 0..(Dim(A, 1)-1) |->
            LET x == A.a[i][j]
                y == B.a[i][j]
            IN  IF x >= y THEN x ELSE y]])

\* np.clip(A, 0, None): negative entries become 0
Clip(A) ==
    Arr2(Dim(A, 0), Dim(A, 1),
         [i \in 0..(Dim(A, 0)-1) |-> [j \in 0..(Dim(A, 1)-1) |->
            LET x == A.a[i][j] IN IF x < 0 THEN 0 ELSE x]])

\* EnhanceLoop that keeps the latest response instead of the maximum
RECURSIVE EnhanceLoop_Latest(_, _, _, _, _, _)
EnhanceLoop_Latest(A, n, rs, zm, i, acc) ==
    IF i > Len(rs) THEN acc
    ELSE LET resp == Convolve(A, diagonal_filter(n, rs[i], zm))
         IN  EnhanceLoop_Latest(A, n, rs, zm, i + 1, resp)

\* the loop of lines 870-878 from the i-th ratio on, acc being R_smooth
\* (NoArr for None)
RECURSIVE EnhanceLoop(_, _, _, _, _, _)
EnhanceLoop(A, n, rs, zm, i, acc) ==
    IF i > Len(rs) THEN acc
    ELSE LET resp == Convolve(A, diagonal_filter(n, rs[i], zm))
         IN  EnhanceLoop(A, n, rs, zm, i + 1,
                         IF acc.ndim = 0 THEN resp ELSE Maximum(acc, resp))

\* path_enhance(R, n, max_ratio=2^maxe, min_ratio=2^mine (None unless ming),
\* n_filters=nf, zero_mean=zm, clip=cl): the exception raised, the ratios of
\* the kernels generated, the number of convolutions run, the value returned
path_enhance(A, n, maxe, ming, mine, nf, zm, cl) ==
    IF ming /\ mine > maxe
    THEN [err |-> "ParameterError", ratios |-> <<>>, n_conv |-> 0,
          val |-> NoArr]
    ELSE LET lo == IF ming THEN mine ELSE -maxe
             rs == Ratios(lo, maxe, nf)
             sm == EnhanceLoop(A, n, rs, zm, 1, NoArr)
         IN  [err |-> "none", ratios |-> rs, n_conv |-> Len(rs),
              val |-> IF cl THEN Clip(sm) ELSE sm]

\* the r x c matrix with a one in the cells of s and a zero elsewhere
Indicator(r, c, s) ==
    Arr2(r, c, [i \in 0..(r-1) |-> [j \in 0..(c-1) |->
                    IF <<i, j>> \in s THEN 1 ELSE 0]])

\* the R arguments tried: the matrices of zeros and ones
PEInputs ==
    UNION {{Indicator(r, c, s) :
              s \in {x \in SUBSET Cells(r, c) : Cardinality(x) \in Ones}} :
             r \in 1..MaxR, c \in 1..MaxR}

InitPE ==
    /\ LagIdle
    /\ RMIdle
    /\ TFIdle
    /\ ppc = "start"
    /\ pe_R \in PEInputs
    /\ pe_n \in KernelLengths
    /\ max_exp \in Exps
    /\ min_given \in BOOLEAN
    /\ min_exp \in IF min_given THEN Exps ELSE {0}
    /\ n_filters \in 1..MaxFilters
    /\ zero_mean \in BOOLEAN
    /\ clip \in BOOLEAN
    /\ perr = "none"
    /\ ratios = <<>>
    /\ n_conv = 0
    /\ R_smooth = NoArr

\* a call of path_enhance
CallPathEnhance ==
    /\ ppc = "start"
    /\ LET res == path_enhance(pe_R, pe_n, max_exp, min_given, min_exp,
                               n_filters, zero_mean, clip)
       IN  /\ perr' = res.err
           /\ ratios' = res.ratios
           /\ n_conv' = res.n_conv
           /\ R_smooth' = res.val
    /\ ppc' = "done"
    /\ UNCHANGED <<pe_R, pe_n, max_exp, min_given, min_exp, n_filters,
                   zero_mean, clip>>
    /\ UNCHANGED <<lagvars, rmvars, tfvars>>

NextPE == CallPathEnhance

SpecPE == InitPE /\ [][NextPE]_vars

\* --------------------------------------------------------- timelag_filter
\* values that are not arrays: None and the string 'x'
NoneValue == [ndim |-> -1, shape |-> <<>>, a |-> <<>>]

StrValue == [ndim |-> -2, shape |-> <<>>, a |-> <<>>]

\* the wrapped functions tried:
\*   def first(a, mode=None): return a
\*   def second(a, b, *rest, **kwargs): return b
\*   def double(*args, **kwargs): return 2 * args[0]
\*   def raise_(*args, **kwargs): raise ValueError
Functions == {"first", "second", "double", "raise"}

\* the signature of a wrapped function: the names of its declared
\* parameters, how many of them have no default (every default is None),
\* and whether it takes *args and **kwargs
Signature(f) ==
    IF f = "first"
    THEN [params |-> <<"a", "mode">>, required |-> 1,
          varargs |-> FALSE, varkw |-> FALSE]
    ELSE IF f = "second"
    THEN [params |-> <<"a", "b">>, required |-> 2,
          varargs |-> TRUE, varkw |-> TRUE]
    ELSE [params |-> <<>>, required |-> 0,
          varargs |-> TRUE, varkw |-> TRUE]

\* line 563, decorator(__my_filter, function): the function returned has
\* the signature of the wrapped function, and a call of it is bound to that
\* signature before __my_filter runs. A call that does not fit the
\* signature raises TypeError; otherwise __my_filter receives every declared
\* parameter positionally (given by position, by keyword, or its default),
\* then the surplus positional arguments, and as keywords only those that
\* name no declared parameter: [err, args, kwargs]
Bind(f, args, kwargs) ==
    LET sig == Signature(f)
        np == Len(sig.params)
        pos(name) == {p \in 1..np : sig.params[p] = name}
        given(p) == {q \in DOMAIN kwargs : kwargs[q][1] = sig.params[p]}
        surplus == Len(args) > np /\ ~sig.varargs
        twice == \E q \in DOMAIN kwargs :
                    \E p \in pos(kwargs[q][1]) : p <= Len(args)
        unknown == \E q \in DOMAIN kwargs :
                      pos(kwargs[q][1]) = {} /\ ~sig.varkw
        missing == \E p \in 1..sig.required :
                      p > Len(args) /\ given(p) = {}
        extra(kv) == pos(kv[1]) = {}
    IN  IF surplus \/ twice \/ unknown \/ missing
        THEN [err |-> "TypeError", args |-> <<>>, kwargs |-> <<>>]
        ELSE [err |-> "none",
              args |-> [p \in 1..np |->
                           IF p <= Len(args) THEN args[p]
                           ELSE IF given(p) # {}
                           THEN kwargs[CHOOSE q \in given(p) : TRUE][2]
                           ELSE NoneValue]
                       \o SubSeq(args, np + 1, Len(args)),
              kwargs |-> SelectSeq(kwargs, extra)]

\* wrapped_f(*args, **kwargs) on arguments that fit the signature:
\* [err, val]
Apply(f, args, kwargs) ==
    IF f = "first" THEN [err |-> "none", val |-> args[1]]
    ELSE IF f = "second" THEN [err |-> "none", val |-> args[2]]
    ELSE IF f = "double"
    THEN [err |-> "none",
          val |-> Arr2(Dim(args[1], 0), Dim(args[1], 1),
                       [i \in 0..(Dim(args[1], 0)-1) |->
                          [j \in 0..(Dim(args[1], 1)-1) |->
                             2 * args[1].a[i][j]]])]
    ELSE [err |-> "ValueError", val |-> NoArr]

\* MapArg that always pads
MapArg_AlwaysPad(args, index, p) ==
    IF index + 1 > Len(args) THEN [err |-> "IndexError", val |-> args]
    ELSE IF args[index + 1].ndim < 0
    THEN [err |-> "AttributeError", val |-> args]
    ELSE LET res == recurrence_to_lag(args[index + 1], TRUE, -1)
         IN  [err |-> res.err,
              val |-> IF res.err = "none"
                      THEN [args EXCEPT ![index + 1] = res.val]
                      ELSE args]

\* lines 552-555: args = list(args) with args[index] replaced by
\* recurrence_to_lag(args[index], pad=pad): [err, val]. An index past the
\* end raises IndexError; an argument that is not an array has no ndim
\* (line 349) and raises AttributeError.
MapArg(args, index, p) ==
    IF index + 1 > Len(args) THEN [err |-> "IndexError", val |-> args]
    ELSE IF args[index + 1].ndim < 0
    THEN [err |-> "AttributeError", val |-> args]
    ELSE LET res == recurrence_to_lag(args[index + 1], p, -1)
         IN  [err |-> res.err,
              val |-> IF res.err = "none"
                      THEN [args EXCEPT ![index + 1] = res.val]
                      ELSE args]

\* the second positional arguments tried
Extras == {Indicator(1, 1, {}), Indicator(2, 2, {<<0, 1>>})}

\* the positional argument lists tried: a matrix alone, or with a second
\* argument after or before it
ArgLists ==
    {<<D>> : D \in PEInputs}
    \cup {<<D, E>> : D \in PEInputs, E \in Extras}
    \cup {<<E, D>> : D \in PEInputs, E \in Extras}

\* the keyword arguments tried: none, mode='x', b=<a matrix>
Kwargs ==
    {<<>>, << <<"mode", StrValue>> >>,
     << <<"b", Indicator(2, 2, {<<0, 1>>})>> >>}

InitTF ==
    /\ LagIdle
    /\ RMIdle
    /\ PEIdle
    /\ tpc = "start"
    /\ tf_fn \in Functions
    /\ tf_pad \in BOOLEAN
    /\ tf_index \in {0, 1}
    /\ tf_args \in ArgLists
    /\ tf_kwargs \in Kwargs
    /\ tf_bound = <<>>
    /\ tf_kw = <<>>
    /\ tf_cur = <<>>
    /\ tf_result = NoArr
    /\ tf_out = NoArr
    /\ tf_err = "none"
    /\ tf_trace = <<>>

\* line 563: the call is bound to the signature of the wrapped function
BindCall ==
    /\ tpc = "start"
    /\ LET res == Bind(tf_fn, tf_args, tf_kwargs)
       IN  /\ tf_err' = res.err
           /\ tf_bound' = res.args
           /\ tf_kw' = res.kwargs
           /\ tpc' = IF res.err = "none" THEN "bound" ELSE "done"
    /\ UNCHANGED <<tf_fn, tf_pad, tf_index, tf_args, tf_kwargs, tf_cur,
                   tf_result, tf_out, tf_trace>>
    /\ UNCHANGED <<lagvars, rmvars, pevars>>

\* lines 552-555: the argument at position index is mapped to lag coordinates
MapToLag ==
    /\ tpc = "bound"
    /\ LET res == MapArg(tf_bound, tf_index, tf_pad)
       IN  /\ tf_err' = res.err
           /\ tf_cur' = res.val
           /\ tf_trace' = IF tf_index + 1 > Len(tf_bound) THEN tf_trace
                          ELSE Append(tf_trace,
                                      <<"recurrence_to_lag",
                                        tf_bound[tf_index + 1], tf_pad>>)
           /\ tpc' = IF res.err = "none" THEN "call" ELSE "done"
    /\ UNCHANGED <<tf_fn, tf_pad, tf_index, tf_args, tf_kwargs, tf_bound,
                   tf_kw, tf_result, tf_out>>
    /\ UNCHANGED <<lagvars, rmvars, pevars>>

\* line 558: result = wrapped_f(*args, **kwargs)
CallWrapped ==
    /\ tpc = "call"
    /\ LET res == Apply(tf_fn, tf_cur, tf_kw)
       IN  /\ tf_err' = res.err
           /\ tf_result' = res.val
           /\ tpc' = IF res.err = "none" THEN "from_lag" ELSE "done"
    /\ tf_trace' = Append(tf_trace, <<"function", tf_cur, tf_kw>>)
    /\ UNCHANGED <<tf_fn, tf_pad, tf_index, tf_args, tf_kwargs, tf_bound,
                   tf_kw, tf_cur, tf_out>>
    /\ UNCHANGED <<lagvars, rmvars, pevars>>

\* line 561: return lag_to_recurrence(result)
MapFromLag ==
    /\ tpc = "from_lag"
    /\ LET res == lag_to_recurrence(tf_result, -1)
       IN  /\ tf_err' = res.err
           /\ tf_out' = res.val
    /\ tf_trace' = Append(tf_trace, <<"lag_to_recurrence", tf_result>>)
    /\ tpc' = "done"
    /\ UNCHANGED <<tf_fn, tf_pad, tf_index, tf_args, tf_kwargs, tf_bound,
                   tf_kw, tf_cur, tf_result>>
    /\ UNCHANGED <<lagvars, rmvars, pevars>>

NextTF == BindCall \/ MapToLag \/ CallWrapped \/ MapFromLag

SpecTF == InitTF /\ [][NextTF]_vars

\* ------------------------------------------------- claims on the transforms
IsSquare2D(A) == A.ndim = 2 /\ A.shape[1] = A.shape[2]

ValidAxis(ax) == ax \in {0, 1, -1}

\* C1: for every square matrix and every valid time axis, recurrence_to_lag
\* succeeds, its result has the lag axis of length 2n with pad and is n x n
\* without, and lag_to_recurrence of that result with the same axis returns
\* the original matrix entry for entry.
C1_RoundTrip ==
    /\ (pc = "lag" /\ IsSquare2D(inp) /\ ValidAxis(axis)) =>
            /\ err = "none"
            /\ Dim(lag, Abs(axis)) = inp.shape[1]
            /\ Dim(lag, 1 - Abs(axis)) =
                    (IF pad THEN 2 * inp.shape[1] ELSE inp.shape[1])
    /\ (pc = "done" /\ op = "to_lag") => (err = "none" /\ out = inp)

\* C1 witness: an unpadded round trip along axis 0 of a 3 x 3 matrix whose lag
\* matrix differs from it, and which came back unchanged
C1_Witness ==
    /\ pc = "done" /\ op = "to_lag" /\ ~pad /\ axis = 0
    /\ inp.shape = <<3, 3>>
    /\ inp.a[2][0] = 1 /\ inp.a[1][2] = 2
    /\ lag.a[2][0] = 0 /\ lag.a[2][1] = 1
    /\ out = inp

\* C8: with the last axis as time axis and pad = FALSE, the lag matrix L of an
\* n x n matrix M is n x n with L[i, j] = M[(i + j) mod n, j].
C8_LagFormula ==
    (pc \in {"lag", "done"} /\ op = "to_lag" /\ lag # NoArr
        /\ ~pad /\ axis = -1) =>
        LET n == inp.shape[1]
        IN  /\ lag.shape = <<n, n>>
            /\ \A i \in 0..(n-1), j \in 0..(n-1) :
                    lag.a[i][j] = inp.a[(i + j) % n][j]

\* C8 witness: a 3 x 3 matrix with M[0, 2] = 1 whose unpadded lag matrix has
\* moved that entry to L[1, 2]
C8_Witness ==
    /\ pc = "lag" /\ op = "to_lag" /\ err = "none" /\ ~pad /\ axis = -1
    /\ inp.shape = <<3, 3>>
    /\ inp.a[0][2] = 1 /\ inp.a[1][2] = 0
    /\ lag.a[1][2] = 1 /\ lag.a[0][2] = 0

\* the shape test of lag_to_recurrence, stated on the shape alone
LagShapeOK(A, ax) ==
    \/ A.shape[1] = A.shape[2]
    \/ A.shape[2 - ax] = 2 * A.shape[ax + 1]

\* C9: recurrence_to_lag raises ParameterError for every input that is not a
\* square 2-D matrix; lag_to_recurrence raises ParameterError for every 2-D
\* input that is neither square nor twice as long on the lag axis as on the
\* time axis; every accepted input gives back an n x n matrix, n the length of
\* the time axis.
C9_ShapeErrors ==
    /\ (pc = "lag" /\ ~IsSquare2D(inp)) =>
            (err = "ParameterError" /\ lag = NoArr)
    /\ (pc = "done" /\ op = "from_lag" /\ inp.ndim = 2 /\ ValidAxis(axis)
            /\ ~LagShapeOK(inp, Abs(axis))) =>
            (err = "ParameterError" /\ out = NoArr)
    /\ (pc = "done" /\ op = "from_lag" /\ err = "none") =>
            out.shape = <<Dim(inp, Abs(axis)), Dim(inp, Abs(axis))>>
    /\ (pc = "done" /\ op = "to_lag" /\ err = "none") =>
            out.shape = <<Dim(lag, Abs(axis)), Dim(lag, Abs(axis))>>

\* C9 witness: a padded 3 x 3 matrix (lag shape 6 x 3) accepted by
\* lag_to_recurrence and cut back to 3 x 3
C9_Witness ==
    /\ pc = "done" /\ op = "to_lag" /\ pad /\ axis = 1 /\ err = "none"
    /\ lag.shape = <<6, 3>>
    /\ out.shape = <<3, 3>>

\* C9, the rejected side: a 3 x 2 matrix rejected by lag_to_recurrence
C9_WitnessRejected ==
    /\ pc = "done" /\ op = "from_lag" /\ axis = 1
    /\ inp.shape = <<3, 2>>
    /\ err = "ParameterError"

\* C10: an axis outside {0, 1, -1} is rejected with ParameterError by both
\* transforms, and no matrix is returned.
C10_InvalidAxisRejected ==
    (pc \in {"lag", "done"} /\ ~ValidAxis(axis)) =>
        (err = "ParameterError" /\ lag = NoArr /\ out = NoArr)

\* what the source does with an invalid axis: lag_to_recurrence raises
\* ParameterError; recurrence_to_lag raises ParameterError only when the
\* matrix is not square, and IndexError otherwise
C10_ActualAxisErrors ==
    (pc \in {"lag", "done"} /\ ~ValidAxis(axis)) =>
        /\ lag = NoArr /\ out = NoArr
        /\ err = (IF op = "to_lag" /\ IsSquare2D(inp)
                  THEN "IndexError" ELSE "ParameterError")

\* ------------------------------------------- claims on recurrence_matrix
Returned == rpc = "done" /\ rerr = "none"

T == Cardinality(DOMAIN data)

\* C2 (as stated): the returned matrix has no nonzero entry at any (i, j) with
\* |i - j| < width, for every combination of the other arguments.
C2_NoNonzeroInBand ==
    Returned =>
        \A i \in Idx(T), j \in Idx(T) :
            Abs(i - j) < width => rec_out.a[i][j] = Num(0)

\* C2 (amended): the returned matrix has no nonzero entry at any (i, j) with
\* |i - j| < width, except on the main diagonal when self is set and the mode
\* is connectivity or affinity.
C2_BandAmended ==
    Returned =>
        \A i \in Idx(T), j \in Idx(T) :
            (/\ Abs(i - j) < width
             /\ (i # j \/ ~selfloop \/ mode = "distance"))
                => rec_out.a[i][j] = Num(0)

\* C2 witness: four points, width 2, distance mode: the adjacent points 0 and
\* 1 are distinct (the index links them) yet rec[0, 1] is empty, while the
\* link (0, 2) outside the band is kept
C2_Witness ==
    /\ Returned /\ T = 4 /\ width = 2 /\ mode = "distance"
    /\ data[0] # data[1]
    /\ rec_out.a[0][1] = Num(0)
    /\ rec_out.a[0][2] # Num(0)

\* C3: with sym set the returned matrix equals its transpose in every mode and
\* for either self setting, and an off-diagonal entry is nonzero only if both
\* rec[i, j] and rec[j, i] were nonzero after the band removal and the top-k
\* pruning.
C3_Symmetric ==
    (Returned /\ sym) =>
        \A i \in Idx(T), j \in Idx(T) :
            /\ rec_out.a[i][j] = rec_out.a[j][i]
            /\ (i # j /\ rec_out.a[i][j] # Num(0))
                    => (pruned[i][j] # 0 /\ pruned[j][i] # 0)

\* C3 witness: a symmetrized result in which a one-sided link (0 -> 1 kept by
\* the pruning, 1 -> 0 not) is gone and a mutual link is kept
C3_Witness ==
    /\ Returned /\ sym /\ T = 4
    /\ pruned[0][1] # 0 /\ pruned[1][0] = 0
    /\ rec_out.a[0][1] = Num(0)
    /\ \E i \in Idx(T), j \in Idx(T) : i # j /\ rec_out.a[i][j] # Num(0)

\* C4: every row of the returned matrix has at most k nonzero entries off the
\* main diagonal, with or without symmetrization.
C4_AtMostKPerRow ==
    Returned =>
        \A i \in Idx(T) :
            Cardinality({j \in Idx(T) : j # i /\ rec_out.a[i][j] # Num(0)})
                <= k_eff

\* C4 witness: four points, width 1, k = 1, connectivity mode: the index gives
\* row 0 three links outside the band and exactly one is left
C4_Witness ==
    /\ Returned /\ T = 4 /\ width = 1 /\ mode = "connectivity"
    /\ k_given /\ k_arg = 1 /\ n_neighbors = 3 /\ selfloop /\ ~sym
    /\ Cardinality({j \in Idx(T) : j # 0 /\ rec_out.a[0][j] # Num(0)}) = 1

\* C5: with self set every main-diagonal entry is 1 in connectivity and
\* affinity mode and 0 in distance mode; without self it is 0 in every mode.
C5_SelfLoopPolicy ==
    Returned =>
        \A i \in Idx(T) :
            rec_out.a[i][i] =
                (IF selfloop /\ mode \in {"connectivity", "affinity"}
                 THEN Num(1) ELSE Num(0))

\* the diagonal the source produces: as C5 states, except that in affinity
\* mode with an estimated bandwidth that is NaN (no link survived) the
\* self-loops are NaN
C5_ActualDiagonal ==
    Returned =>
        \A i \in Idx(T) :
            rec_out.a[i][i] =
                (IF selfloop /\ mode = "affinity" /\ bandwidth.nan THEN NaN
                 ELSE IF selfloop /\ mode \in {"connectivity", "affinity"}
                 THEN Num(1) ELSE Num(0))

\* the arguments fail one of the checks C6 names
InvalidArgs ==
    \/ width < 1
    \/ width > T
    \/ mode \notin {"connectivity", "distance", "affinity"}
    \/ (bw_given /\ bw_arg <= 0)

\* C6: ParameterError is raised when width < 1 or width > n, when the mode is
\* unknown, or when a bandwidth <= 0 is given (in any mode), before the k-NN
\* index is constructed, and no matrix is returned.
C6_PreflightErrors ==
    (rpc = "done" /\ InvalidArgs) =>
        (rerr = "ParameterError" /\ ~knn_built /\ rec_out = NoRec)

\* C6 witness: a bandwidth of 0 given in connectivity mode, with a valid width
C6_Witness ==
    /\ rpc = "done" /\ rerr = "ParameterError"
    /\ mode = "connectivity" /\ bw_given /\ bw_arg = 0
    /\ width = 1 /\ T = 3

\* C7: when k is None the k used is 2 * ceil(sqrt(n - 2 * width + 1)) if
\* n > 2 * width + 1 and 2 otherwise; it is an integer >= 2. (c = k / 2 is the
\* ceiling of the square root iff (c - 1)^2 < n - 2 * width + 1 <= c^2.)
C7_DefaultK ==
    (rpc = "done" /\ ~k_given /\ ~InvalidArgs) =>
        /\ k_eff >= 2
        /\ k_eff % 2 = 0
        /\ LET c == k_eff \div 2
               m == T - 2 * width + 1
           IN  IF T > 2 * width + 1
               THEN (c - 1) * (c - 1) < m /\ m <= c * c
               ELSE k_eff = 2

\* C7 witness: four points and width 1, where n > 2 * width + 1 and the
\* default is 2 * ceil(sqrt(3)) = 4
C7_Witness ==
    /\ Returned /\ ~k_given /\ T = 4 /\ width = 1 /\ k_eff = 4

\* ------------------------------------------------- claims on path_enhance
PEReturned == ppc = "done" /\ perr = "none"

\* log2 of the min_ratio the call uses: the argument, or that of
\* 1/max_ratio when the argument is None
UsedMinExp == IF min_given THEN min_exp ELSE -max_exp

PERejected ==
    /\ perr = "ParameterError"
    /\ ratios = <<>>
    /\ n_conv = 0
    /\ R_smooth = NoArr

\* C11: whenever the min_ratio a call of path_enhance would use (the
\* argument or, when it is omitted, 1/max_ratio) is greater than max_ratio,
\* the call raises ParameterError before any kernel is generated or any
\* convolution is run.
C11_MinAboveMaxRejected ==
    (ppc = "done" /\ UsedMinExp > max_exp) => PERejected

\* What the code does: a supplied min_ratio above max_ratio is rejected
\* before any work, and a call without min_ratio is never rejected.
C11_ActualRejection ==
    ppc = "done" =>
        /\ (min_given /\ min_exp > max_exp) => PERejected
        /\ ~(min_given /\ min_exp > max_exp) => perr = "none"

\* a call without min_ratio and with max_ratio < 1 has returned
C11_DefaultAboveMax ==
    /\ PEReturned
    /\ ~min_given
    /\ UsedMinExp > max_exp
    /\ n_conv = n_filters

\* the slope ratios of the kernels generated, as base-2 logarithms
RatioSet == {ratios[q] : q \in DOMAIN ratios}

\* log2 of the ratio 1
UnitRatio == <<0, 1>>

\* C12: with min_ratio left to its default 1/max_ratio, every odd
\* n_filters >= 1 gives a set of slope ratios that contains the ratio 1; in
\* particular max_ratio = 2 with n_filters = 3 gives exactly the ratios
\* 0.5, 1 and 2.
C12_OddHasUnitRatio ==
    (PEReturned /\ ~min_given /\ n_filters % 2 = 1) =>
        /\ UnitRatio \in RatioSet
        /\ (max_exp = 1 /\ n_filters = 3) =>
                RatioSet = {<<-1, 1>>, <<0, 1>>, <<1, 1>>}

\* What the code does: an odd n_filters of three or more gives the ratio 1
\* (in exact arithmetic), the single filter of n_filters = 1 has the ratio
\* min_ratio, and max_ratio = 2 with n_filters = 3 gives 0.5, 1 and 2.
C12_ActualRatios ==
    (PEReturned /\ ~min_given) =>
        /\ (n_filters % 2 = 1 /\ n_filters >= 3) => UnitRatio \in RatioSet
        /\ n_filters = 1 => RatioSet = {<<-max_exp, 1>>}
        /\ (max_exp = 1 /\ n_filters = 3) =>
                RatioSet = {<<-1, 1>>, <<0, 1>>, <<1, 1>>}

\* a call with one filter and max_ratio = 2 has returned
C12_SingleFilter ==
    /\ PEReturned
    /\ ~min_given
    /\ n_filters = 1
    /\ max_exp = 1
    /\ ratios = << <<-1, 1>> >>

\* the responses at cell <<i, j>> of R to the kernels generated
Responses(i, j) ==
    {Convolve(pe_R, diagonal_filter(pe_n, ratios[q], zero_mean)).a[i][j] :
        q \in DOMAIN ratios}

SetMax(S) == CHOOSE m \in S : \A x \in S : x <= m

\* C13: for n_filters >= 1 the matrix path_enhance returns has the shape of
\* R, and each of its entries is the maximum over all generated kernels of
\* the convolution response of R at that position; with clip the entry is
\* the larger of 0 and that maximum, so that no entry is negative.
C13_MaxResponseClipped ==
    PEReturned =>
        /\ R_smooth.ndim = 2
        /\ R_smooth.shape = pe_R.shape
        /\ n_conv = n_filters
        /\ Len(ratios) = n_filters
        /\ \A i \in 0..(Dim(pe_R, 0) - 1), j \in 0..(Dim(pe_R, 1) - 1) :
              LET m == SetMax(Responses(i, j))
              IN  /\ R_smooth.a[i][j] = IF clip /\ m < 0 THEN 0 ELSE m
                  /\ clip => R_smooth.a[i][j] >= 0

\* a clipped call has returned a matrix with an entry whose largest
\* response was negative and an entry where the kernels disagreed and the
\* largest response was positive
C13_Witness ==
    /\ PEReturned
    /\ clip
    /\ n_filters >= 2
    /\ \E i \in 0..(Dim(pe_R, 0) - 1), j \in 0..(Dim(pe_R, 1) - 1) :
          /\ SetMax(Responses(i, j)) < 0
          /\ R_smooth.a[i][j] = 0
    /\ \E i \in 0..(Dim(pe_R, 0) - 1), j \in 0..(Dim(pe_R, 1) - 1) :
          /\ Cardinality(Responses(i, j)) >= 2
          /\ R_smooth.a[i][j] > 0
          /\ R_smooth.a[i][j] = SetMax(Responses(i, j))
          /\ R_smooth.a[i][j] #
               Convolve(pe_R, diagonal_filter(pe_n, ratios[Len(ratios)],
                                              zero_mean)).a[i][j]

\* ----------------------------------------------- claims on timelag_filter
\* the call was bound to the signature and __my_filter was entered
Entered == tpc # "start" /\ tf_err # "TypeError"

\* the arguments __my_filter received carry the values of the caller: the
\* positional arguments in their positions, every keyword argument either
\* still a keyword or in the position of the parameter it names, and
\* nothing else but the default None of parameters the caller left out
ValuesKept ==
    LET params == Signature(tf_fn).params
    IN  /\ Len(tf_bound) >= Len(tf_args)
        /\ \A p \in 1..Len(tf_args) : tf_bound[p] = tf_args[p]
        /\ \A q \in DOMAIN tf_kwargs :
              \/ \E x \in DOMAIN tf_kw : tf_kw[x] = tf_kwargs[q]
              \/ \E p \in (Len(tf_args) + 1)..Len(tf_bound) :
                    params[p] = tf_kwargs[q][1] /\ tf_bound[p] = tf_kwargs[q][2]
        /\ \A x \in DOMAIN tf_kw : \E q \in DOMAIN tf_kwargs :
              tf_kw[x] = tf_kwargs[q]
        /\ \A p \in (Len(tf_args) + 1)..Len(tf_bound) :
              \/ tf_bound[p] = NoneValue
              \/ \E q \in DOMAIN tf_kwargs :
                    params[p] = tf_kwargs[q][1] /\ tf_bound[p] = tf_kwargs[q][2]

\* the argument list the wrapped function is to receive: the one
\* __my_filter received, with position index in lag coordinates
ExpectedArgs ==
    [tf_bound EXCEPT ![tf_index + 1] =
        recurrence_to_lag(tf_bound[tf_index + 1], tf_pad, -1).val]

\* the q-th call a run of the wrapper is to make
ExpectedStep(q) ==
    IF q = 1 THEN <<"recurrence_to_lag", tf_bound[tf_index + 1], tf_pad>>
    ELSE IF q = 2 THEN <<"function", ExpectedArgs, tf_kw>>
    ELSE <<"lag_to_recurrence", Apply(tf_fn, ExpectedArgs, tf_kw).val>>

\* C14: a call of a function made by timelag_filter(function, pad, index)
\* performs, in this order and each once, recurrence_to_lag on the
\* positional argument at position index, the wrapped function on the
\* argument list with only that position replaced, every other argument
\* carrying the value the caller gave it, and lag_to_recurrence on the
\* function's result, whose value it returns; the calls made at any moment
\* are the first steps of that list, and a call that does not fit the
\* signature of the function makes none. Hence a wrapped function that
\* returns its data argument unchanged gives back the original matrix, with
\* and without padding.
C14_WrapperSteps ==
    /\ Len(tf_trace) <= 3
    /\ ~Entered => tf_trace = <<>>
    /\ Entered => ValuesKept
    /\ \A q \in DOMAIN tf_trace : tf_trace[q] = ExpectedStep(q)
    /\ (tpc = "done" /\ tf_err = "none") =>
          /\ Len(tf_trace) = 3
          /\ tf_out = lag_to_recurrence(tf_result, -1).val
          /\ tf_result = tf_cur[tf_index + 1] =>
                tf_out = tf_bound[tf_index + 1]

\* an unpadded call first(D, mode='x') has returned the original matrix D,
\* which differs from its lag form; the function received mode in second
\* position
C14_Witness ==
    /\ tpc = "done"
    /\ tf_err = "none"
    /\ ~tf_pad
    /\ tf_fn = "first"
    /\ tf_index = 0
    /\ Len(tf_args) = 1
    /\ tf_kwargs = << <<"mode", StrValue>> >>
    /\ tf_bound = <<tf_args[1], StrValue>>
    /\ tf_kw = <<>>
    /\ Len(tf_trace) = 3
    /\ tf_result = tf_cur[1]
    /\ tf_cur[1] # tf_args[1]
    /\ tf_cur[2] = StrValue
    /\ tf_out = tf_args[1]

\* ------------------------------------- claims on the storage of the inputs
\* the last call was one of lag_to_recurrence
LastIsFromLag == pc = "done" /\ op \in {"to_lag", "from_lag"}

\* the argument of the last call, as it was when the call was made
LastArg == IF pc = "done" /\ op = "to_lag" THEN lag ELSE inp

\* C15: recurrence_to_lag and lag_to_recurrence never modify the matrix
\* they are given: after the call the argument holds the entries it held
\* before, whether it is dense or sparse of any format (lil included), and
\* the matrix returned shares no storage with it.
C15_ArgumentUnmodified ==
    pc # "start" => (arg_after = LastArg /\ ~shares)

\* What the code does: the argument is left alone and the result is new
\* storage, except that lag_to_recurrence on a lil matrix that passes
\* validation leaves in its argument the matrix built by the loop of lines
\* 466-469, of which the value returned is the truncation.
C15_ActualFrame ==
    pc # "start" =>
        /\ ~shares
        /\ IF LastIsFromLag /\ fmt = "lil" /\ err = "none"
           THEN /\ arg_after = FromLagLoop(LastArg, LastArg, Abs(axis),
                                           Dim(LastArg, Abs(axis)), 1)
                /\ out = Truncate(arg_after, Abs(axis),
                                  Dim(LastArg, Abs(axis)))
           ELSE arg_after = LastArg

\* lag_to_recurrence has returned from a call on a lil matrix of the
\* caller's, which now holds other entries than before
C15_LilArgumentChanged ==
    /\ pc = "done"
    /\ op = "from_lag"
    /\ fmt = "lil"
    /\ err = "none"
    /\ arg_after # inp
    /\ ~shares

\* --------------------------------------- claims on the neighbors requested
\* C16: for every call that passes the validation of recurrence_matrix the
\* number of neighbors requested from the k-NN index, min(n - 1, k + 2 *
\* width), is at least 1 and at most n - 1, and the call returns an n x n
\* matrix instead of failing inside the index.
C16_NeighborsInRange ==
    (rpc = "done" /\ ~InvalidArgs) =>
        /\ knn_built
        /\ n_neighbors = Min(T - 1, k_eff + 2 * width)
        /\ 1 <= n_neighbors /\ n_neighbors <= T - 1
        /\ rerr = "none"
        /\ rec_out.shape = <<T, T>>

\* What the code does: the claim holds for n >= 2; a single feature vector
\* passes validation with width = 1, asks for min(0, k + 2) = 0 neighbors
\* and fails in the index with ValueError.
C16_ActualNeighbors ==
    (rpc = "done" /\ ~InvalidArgs) =>
        /\ knn_built
        /\ n_neighbors = Min(T - 1, k_eff + 2 * width)
        /\ IF T >= 2
           THEN /\ 1 <= n_neighbors /\ n_neighbors <= T - 1
                /\ rerr = "none"
                /\ rec_out.shape = <<T, T>>
           ELSE /\ n_neighbors = 0
                /\ rerr = "ValueError"
                /\ rec_out = NoRec

\* a call on a single feature vector has passed validation and failed in
\* the k-NN index
C16_SingleVector ==
    /\ rpc = "done"
    /\ ~InvalidArgs
    /\ T = 1
    /\ width = 1
    /\ n_neighbors = 0
    /\ rerr = "ValueError"

====
